---- MODULE Spec2Model ----
(***************************************************************************)
(* A model of the qastudio_pytest reporter: the plugin object              *)
(* (plugin.py, class QAStudioPlugin), the three session hooks the host     *)
(* calls on it, and the requests the hooks hand to the API client          *)
(* (api_client.py).  One action is one whole hook call.  The outcome of    *)
(* every request is an input of the hook that makes it.  What one request  *)
(* goes through inside the API client, attempt by attempt, is modelled on  *)
(* its own (SpecTransport).                                                *)
(*                                                                         *)
(* Left out: the wall-clock fields start_time and session_duration, the    *)
(* verbose progress lines of _log, and every field of a result other than  *)
(* the test it belongs to and its status.                                  *)
(***************************************************************************)
EXTENDS Integers, Sequences, FiniteSets, TLC

\* The largest number of results the host lets accumulate in the model.
MaxTests == 3
\* The largest batch size a configuration of the model carries.
MaxBatch == 2
\* The largest max_retries a configuration of the transport model carries.
MaxRetries == 2
\* The largest number of results a session holds when the host calls
\* session finish a second time.
MaxResent == 2

VARIABLES
    config,         \* the ReporterConfig built from the host's options
    pc,             \* where the host is in the plugin's lifecycle
    test_run_id,    \* QAStudioPlugin.test_run_id
    results,        \* QAStudioPlugin.results
    total_tests,    \* QAStudioPlugin.total_tests
    passed_tests,   \* QAStudioPlugin.passed_tests
    failed_tests,   \* QAStudioPlugin.failed_tests
    skipped_tests,  \* QAStudioPlugin.skipped_tests
    error_tests,    \* QAStudioPlugin.error_tests
    requests,       \* the logical requests handed to the API client, in order
    closed,         \* how many times QAStudioAPIClient.close() was called
    raised,         \* the hooks that raised to the host
    errorLines,     \* the "[QAStudio] ERROR: ..." lines printed, in order
    handled,        \* the calls of _handle_error, in order
    last,           \* the hook the host called last, and what it did
    response,       \* the body create_test_run handed back to pytest_sessionstart
    transport       \* one logical request inside QAStudioAPIClient._make_request

vars == <<config, pc, test_run_id, results, total_tests, passed_tests,
          failed_tests, skipped_tests, error_tests, requests, closed,
          raised, errorLines, handled, last, response, transport>>

\* The variables of the plugin object and of the host's position.
pluginVars == <<config, pc, test_run_id, results, total_tests, passed_tests,
                failed_tests, skipped_tests, error_tests, requests, closed,
                raised, errorLines, handled, last, response>>

counters == <<total_tests, passed_tests, failed_tests, skipped_tests, error_tests>>

-----------------------------------------------------------------------------
(* Values *)

\* Python's None.
None == "None"

\* The run id a configuration may name, and the one the service assigns.
RunCfg == "run-cfg"
RunSrv == "run-srv"

\* Python truthiness of an Optional[str]: `not x`.
Falsy(x) == x = None \/ x = ""

\* The four values of a result's status.
Statuses == {"passed", "failed", "skipped", "error"}

\* report.when of the three reports the host builds for one test.
Phases == {"setup", "call", "teardown"}

\* report.outcome; "unknown" stands for any value outside the three names.
Outcomes == {"passed", "failed", "skipped", "unknown"}

\* What the service may answer to the create-run request: a body with an
\* id, a body without one, a body whose id is empty, or a failure (an
\* APIError out of _make_request).
CreateAnswers == {"id", "noid", "emptyid", "fail"}

\* The value of `response` while create_test_run was not called, and after
\* it raised.
NoCall == "no-call"
Raised == "APIError"

\* The fields of a request that carries no summary.
NoSummary == [total |-> 0, passed |-> 0, failed |-> 0, skipped |-> 0, errors |-> 0]

Min(a, b) == IF a < b THEN a ELSE b

\* The configurations the host's options can produce.
Configs ==
    [api_key : {"", "key"},
     silent : BOOLEAN,
     create_test_run : BOOLEAN,
     test_run_id : {None, RunCfg},
     batch_size : 0..MaxBatch]

-----------------------------------------------------------------------------
(* utils.py and models.py *)

\* utils.validate_config: TRUE when the configuration is accepted.
validate_config(c) ==
    /\ c.api_key # ""
    /\ c.batch_size > 0
    /\ (c.create_test_run \/ ~Falsy(c.test_run_id))

\* utils.batch_list: fixed-size chunks of items, in order.
RECURSIVE batch_list(_, _)
batch_list(items, size) ==
    IF Len(items) = 0 THEN <<>>
    ELSE <<SubSeq(items, 1, Min(size, Len(items)))>>
             \o batch_list(SubSeq(items, size + 1, Len(items)), size)

\* TestResult.from_pytest_report: the result of test `item`, its status
\* mapped from the report's outcome.
from_pytest_report(item, outcome) ==
    [test |-> item,
     status |-> IF outcome \in {"passed", "failed", "skipped"} THEN outcome ELSE "error"]

-----------------------------------------------------------------------------
(* api_client.py: the requests *)

\* QAStudioAPIClient.create_test_run: one POST /test-runs.
create_test_run(answer) ==
    [kind |-> "create", run_id |-> None, batch |-> <<>>,
     summary |-> NoSummary, ok |-> answer # "fail"]

\* QAStudioAPIClient.submit_test_results: one POST /test-runs/{id}/results
\* carrying the batch it was given.
submit_test_results(run_id, batch, ok) ==
    [kind |-> "submit", run_id |-> run_id, batch |-> batch,
     summary |-> NoSummary, ok |-> ok]

\* complete_test_run sent for the configured run id, not the held one.
complete_test_run_config_id(run_id, summary, ok) ==
    [kind |-> "complete", run_id |-> config.test_run_id, batch |-> <<>>,
     summary |-> summary, ok |-> ok]

\* QAStudioAPIClient.complete_test_run: one POST /test-runs/{id}/complete.
complete_test_run(run_id, summary, ok) ==
    [kind |-> "complete", run_id |-> run_id, batch |-> <<>>,
     summary |-> summary, ok |-> ok]

-----------------------------------------------------------------------------
(* api_client.py: one logical request through the retrying session *)

\* Retry(status_forcelist=...): the statuses the session retries on.
status_forcelist == {429, 500, 502, 503, 504}

\* What one attempt on the wire ends in: a response with a status, or a
\* network failure.
WireEvents ==
    [kind : {"response"}, status : {200, 404} \cup status_forcelist]
        \cup [kind : {"read_timeout", "connect_timeout", "connection_error"},
               status : {0}]

\* The attempts the Retry strategy retries: a response whose status is in
\* status_forcelist, and every network failure (POST is in allowed_methods).
Retryable(w) == w.kind # "response" \/ w.status \in status_forcelist

\* The exception session.request raises when the attempt that ended in w was
\* the last one allowed (urllib3's MaxRetryError as requests' HTTPAdapter
\* re-raises it): RetryError for a status of status_forcelist, ConnectTimeout
\* for a connect timeout, ConnectionError for any other network failure, a
\* read timeout included.
exhausted(w) ==
    IF w.kind = "response" THEN "RetryError"
    ELSE IF w.kind = "connect_timeout" THEN "ConnectTimeout"
    ELSE "ConnectionError"

\* session.request that retries on every status of 400 and above.
RECURSIVE session_request_retry_any(_, _, _)
session_request_retry_any(wire, i, total) ==
    IF wire[i].kind = "response" /\ wire[i].status < 400
    THEN [attempts |-> i, exception |-> "none", status |-> wire[i].status]
    ELSE IF total > 0
    THEN session_request_retry_any(wire, i + 1, total - 1)
    ELSE [attempts |-> i, exception |-> exhausted(wire[i]), status |-> 0]

\* session.request on the session of _create_session: attempt i of the
\* request, with `total` retries left (Retry(total=max_retries)); wire[i] is
\* what attempt i ends in.
RECURSIVE session_request(_, _, _)
session_request(wire, i, total) ==
    IF ~Retryable(wire[i])
    THEN [attempts |-> i, exception |-> "none", status |-> wire[i].status]
    ELSE IF total > 0
    THEN session_request(wire, i + 1, total - 1)
    ELSE [attempts |-> i, exception |-> exhausted(wire[i]), status |-> 0]

\* The transport before a request, with max_retries = n.
TransportIdle(n) ==
    [pc |-> "idle", max_retries |-> n, wire |-> <<>>, exception |-> "none",
     error |-> 0]

\* QAStudioAPIClient._make_request: error is the status_code of the APIError
\* it raises, wire the attempts made.  prepared is FALSE when the request
\* cannot be built (requests raises before anything is sent, e.g.
\* MissingSchema for a base URL without a scheme).
make_request(t, prepared, wire) ==
    IF ~prepared
    THEN [t EXCEPT !.pc = "raised", !.exception = "MissingSchema", !.error = 500]
    ELSE LET r == session_request(wire, 1, t.max_retries)
             sent == SubSeq(wire, 1, r.attempts)
         IN  IF r.exception = "none"
             THEN IF r.status < 400
                  THEN [t EXCEPT !.pc = "returned", !.wire = sent]
                  ELSE [t EXCEPT !.pc = "raised", !.wire = sent, !.error = r.status]
             ELSE [t EXCEPT !.pc = "raised", !.wire = sent,
                            !.exception = r.exception,
                            !.error = IF r.exception \in {"ConnectTimeout", "ReadTimeout"}
                                      THEN 408
                                      ELSE IF r.exception = "ConnectionError"
                                      THEN 503
                                      ELSE 500]

-----------------------------------------------------------------------------
(* plugin.py: helpers of the hooks *)

\* What a call that raises no APIError leaves behind.
NoError == [lines |-> <<>>, raised |-> FALSE, handled |-> <<>>]

\* _handle_error with the test of the silent flag inverted.
handle_error_inverted(silent, message, n) ==
    IF ~silent
    THEN [lines |-> <<[msg |-> message, batch |-> n]>>, raised |-> FALSE,
          handled |-> <<[msg |-> message, batch |-> n]>>]
    ELSE [lines |-> <<>>, raised |-> TRUE,
          handled |-> <<[msg |-> message, batch |-> n]>>]

\* _handle_error that prints in both modes and never raises.
handle_error_swallow(silent, message, n) ==
    [lines |-> <<[msg |-> message, batch |-> n]>>, raised |-> FALSE,
     handled |-> <<[msg |-> message, batch |-> n]>>]

\* QAStudioPlugin._handle_error: print one line in silent mode, raise otherwise.
handle_error(silent, message, n) ==
    IF silent
    THEN [lines |-> <<[msg |-> message, batch |-> n]>>, raised |-> FALSE,
          handled |-> <<[msg |-> message, batch |-> n]>>]
    ELSE [lines |-> <<>>, raised |-> TRUE,
          handled |-> <<[msg |-> message, batch |-> n]>>]

\* The batches with the trailing partial batch dropped.
submit_batches_full_only(rs, size) ==
    batch_list(SubSeq(rs, 1, (Len(rs) \div size) * size), size)

\* The batches _submit_results walks through.
submit_batches(rs, size) == batch_list(rs, size)

\* The loop of _submit_results leaving at the first failed batch in both
\* modes.
RECURSIVE submit_loop_stop_on_failure(_, _, _, _, _)
submit_loop_stop_on_failure(batches, i, run_id, silent, outs) ==
    IF i > Len(batches)
    THEN [sent |-> <<>>] @@ NoError
    ELSE LET req == submit_test_results(run_id, batches[i], outs[i])
             h == IF outs[i]
                  THEN NoError
                  ELSE handle_error(silent, "Failed to submit batch", i)
         IN  IF ~outs[i]
             THEN [sent |-> <<req>>] @@ h
             ELSE LET rest == submit_loop_stop_on_failure(batches, i + 1, run_id,
                                                          silent, outs)
                  IN  [sent |-> <<req>> \o rest.sent,
                       lines |-> h.lines \o rest.lines,
                       handled |-> h.handled \o rest.handled,
                       raised |-> rest.raised]

\* The loop of _submit_results from batch i on; outs[i] is TRUE when the
\* request for batch i succeeds.  The result is what the loop did: the
\* requests it made, the error lines it printed, whether it raised.
RECURSIVE submit_loop(_, _, _, _, _)
submit_loop(batches, i, run_id, silent, outs) ==
    IF i > Len(batches)
    THEN [sent |-> <<>>] @@ NoError
    ELSE LET req == submit_test_results(run_id, batches[i], outs[i])
             h == IF outs[i]
                  THEN NoError
                  ELSE handle_error(silent, "Failed to submit batch", i)
         IN  IF h.raised
             THEN [sent |-> <<req>>] @@ h
             ELSE LET rest == submit_loop(batches, i + 1, run_id, silent, outs)
                  IN  [sent |-> <<req>> \o rest.sent,
                       lines |-> h.lines \o rest.lines,
                       handled |-> h.handled \o rest.handled,
                       raised |-> rest.raised]

\* QAStudioPlugin._submit_results.
submit_results(rs, size, run_id, silent, outs) ==
    IF Len(rs) = 0
    THEN [sent |-> <<>>] @@ NoError
    ELSE submit_loop(submit_batches(rs, size), 1, run_id, silent, outs)

\* The TestRunSummary pytest_sessionfinish builds from the counters.
TestRunSummary ==
    [total |-> total_tests, passed |-> passed_tests, failed |-> failed_tests,
     skipped |-> skipped_tests, errors |-> error_tests]

\* The try block with the run completed before the batches are submitted.
finish_try_complete_first(outs, cout) ==
    LET sub == submit_results(results, config.batch_size, test_run_id,
                              config.silent, outs)
        req == complete_test_run(test_run_id, TestRunSummary, cout)
    IN  [sent |-> <<req>> \o sub.sent, lines |-> sub.lines,
         handled |-> sub.handled, raised |-> sub.raised, closes |-> 1]

\* The try block with a failure of the complete-run request dropped
\* instead of handed to _handle_error.
finish_try_drop_complete_error(outs, cout) ==
    LET sub == submit_results(results, config.batch_size, test_run_id,
                              config.silent, outs)
        req == complete_test_run(test_run_id, TestRunSummary, cout)
    IN  IF sub.raised
        THEN [closes |-> 1] @@ sub
        ELSE [sent |-> sub.sent \o <<req>>, lines |-> sub.lines,
              handled |-> sub.handled, raised |-> FALSE, closes |-> 1]

\* The try block with the run completed even after a batch error was raised.
finish_try_always_complete(outs, cout) ==
    LET sub == submit_results(results, config.batch_size, test_run_id,
                              config.silent, outs)
        req == complete_test_run(test_run_id, TestRunSummary, cout)
        h == IF cout
             THEN NoError
             ELSE handle_error(config.silent, "Failed to submit results", 0)
    IN  IF sub.raised
        THEN [sent |-> sub.sent \o <<req>>, lines |-> sub.lines,
              handled |-> sub.handled, raised |-> TRUE, closes |-> 1]
        ELSE [sent |-> sub.sent \o <<req>>,
              lines |-> sub.lines \o h.lines,
              handled |-> sub.handled \o h.handled,
              raised |-> h.raised,
              closes |-> 1]

\* The try block with close() called at its end instead of in a finally.
finish_try_close_on_success(outs, cout) ==
    LET sub == submit_results(results, config.batch_size, test_run_id,
                              config.silent, outs)
    IN  IF sub.raised
        THEN [closes |-> 0] @@ sub
        ELSE LET req == complete_test_run(test_run_id, TestRunSummary, cout)
                 h == IF cout
                      THEN NoError
                      ELSE handle_error(config.silent, "Failed to submit results", 0)
             IN  [sent |-> sub.sent \o <<req>>,
                  lines |-> sub.lines \o h.lines,
                  handled |-> sub.handled \o h.handled,
                  raised |-> h.raised,
                  closes |-> IF h.raised THEN 0 ELSE 1]

\* The try block whose handler also catches the error _handle_error raised
\* for a batch, and hands it to _handle_error again.
finish_try_rehandle(outs, cout) ==
    LET sub == submit_results(results, config.batch_size, test_run_id,
                              config.silent, outs)
    IN  IF sub.raised
        THEN LET again == handle_error(config.silent, "Failed to submit results", 0)
             IN  [sent |-> sub.sent, lines |-> sub.lines \o again.lines,
                  handled |-> sub.handled \o again.handled,
                  raised |-> again.raised, closes |-> 1]
        ELSE LET req == complete_test_run(test_run_id, TestRunSummary, cout)
                 h == IF cout
                      THEN NoError
                      ELSE handle_error(config.silent, "Failed to submit results", 0)
             IN  [sent |-> sub.sent \o <<req>>,
                  lines |-> sub.lines \o h.lines,
                  handled |-> sub.handled \o h.handled,
                  raised |-> h.raised,
                  closes |-> 1]

\* The try block of pytest_sessionfinish with its handler and its finally:
\* submit the batches, then complete the run.  cout is TRUE when the
\* complete-run request succeeds.
finish_try(outs, cout) ==
    LET sub == submit_results(results, config.batch_size, test_run_id,
                              config.silent, outs)
    IN  IF sub.raised
        THEN [closes |-> 1] @@ sub
        ELSE LET req == complete_test_run(test_run_id, TestRunSummary, cout)
                 h == IF cout
                      THEN NoError
                      ELSE handle_error(config.silent, "Failed to submit results", 0)
             IN  [sent |-> sub.sent \o <<req>>,
                  lines |-> sub.lines \o h.lines,
                  handled |-> sub.handled \o h.handled,
                  raised |-> h.raised,
                  closes |-> 1]

\* The early return of pytest_sessionfinish when no run id is held.
finish_without_run == [sent |-> <<>>, closes |-> 0] @@ NoError

\* pytest_sessionfinish without the early return.
finish_effect_no_guard(outs, cout) == finish_try(outs, cout)

\* pytest_sessionfinish that delivers once: a call after the first one
\* finds nothing left to send.
finish_effect_deliver_once(outs, cout) ==
    IF Falsy(test_run_id) \/ pc = "finished"
    THEN finish_without_run
    ELSE finish_try(outs, cout)

\* pytest_sessionfinish after its logging: return early when no run id is
\* held, else run the try block.
finish_effect(outs, cout) ==
    IF Falsy(test_run_id) THEN finish_without_run ELSE finish_try(outs, cout)

\* response["id"] taken as always present and non-empty.
created_run_id_always(answer) == RunSrv

\* response.get("id") on the body create_test_run returned: the id, the
\* empty string of an empty id, None when the body has no "id".
created_run_id(answer) ==
    IF answer = "id" THEN RunSrv ELSE IF answer = "emptyid" THEN "" ELSE None

\* The test of pytest_sessionstart without its second half.
must_create_flag_only(c) == c.create_test_run

\* The test of pytest_sessionstart: create a run, or use the configured id.
must_create(c) == c.create_test_run /\ Falsy(c.test_run_id)

\* The counter update with the branch for "error" missing.
bump_no_error(counter, name, status) ==
    IF status = name /\ name # "error" THEN counter + 1 ELSE counter

\* The counter a status adds to.
bump(counter, name, status) == IF status = name THEN counter + 1 ELSE counter

\* The body of the hook with total_tests counted before the result is built.
makereport_effect_count_first(when, outcome, build_ok) ==
    LET same == [results |-> results, total |-> total_tests,
                 passed |-> passed_tests, failed |-> failed_tests,
                 skipped |-> skipped_tests, errors |-> error_tests,
                 raised |-> FALSE]
        result == from_pytest_report(Len(results) + 1, outcome)
    IN  IF when # "call" THEN [note |-> "ignored"] @@ same
        ELSE IF ~build_ok
        THEN [[note |-> "build_failed"] @@ same EXCEPT !.total = total_tests + 1]
        ELSE [note |-> "appended",
              results |-> Append(results, result),
              total |-> total_tests + 1,
              passed |-> bump(passed_tests, "passed", result.status),
              failed |-> bump(failed_tests, "failed", result.status),
              skipped |-> bump(skipped_tests, "skipped", result.status),
              errors |-> bump(error_tests, "error", result.status),
              raised |-> FALSE]

\* The body of the hook without the test of report.when.
makereport_effect_all_phases(when, outcome, build_ok) ==
    LET same == [results |-> results, total |-> total_tests,
                 passed |-> passed_tests, failed |-> failed_tests,
                 skipped |-> skipped_tests, errors |-> error_tests,
                 raised |-> FALSE]
        result == from_pytest_report(Len(results) + 1, outcome)
    IN  IF ~build_ok THEN [note |-> "build_failed"] @@ same
        ELSE [note |-> "appended",
              results |-> Append(results, result),
              total |-> total_tests + 1,
              passed |-> bump(passed_tests, "passed", result.status),
              failed |-> bump(failed_tests, "failed", result.status),
              skipped |-> bump(skipped_tests, "skipped", result.status),
              errors |-> bump(error_tests, "error", result.status),
              raised |-> FALSE]

\* The body of pytest_runtest_makereport on one report: the new results and
\* counters, and what the hook did.  build_ok is FALSE when
\* TestResult.from_pytest_report raises; the handler catches every Exception,
\* so the hook never raises.
makereport_effect(when, outcome, build_ok) ==
    LET same == [results |-> results, total |-> total_tests,
                 passed |-> passed_tests, failed |-> failed_tests,
                 skipped |-> skipped_tests, errors |-> error_tests,
                 raised |-> FALSE]
        result == from_pytest_report(Len(results) + 1, outcome)
    IN  IF when # "call" THEN [note |-> "ignored"] @@ same
        ELSE IF ~build_ok THEN [note |-> "build_failed"] @@ same
        ELSE [note |-> "appended",
              results |-> Append(results, result),
              total |-> total_tests + 1,
              passed |-> bump(passed_tests, "passed", result.status),
              failed |-> bump(failed_tests, "failed", result.status),
              skipped |-> bump(skipped_tests, "skipped", result.status),
              errors |-> bump(error_tests, "error", result.status),
              raised |-> FALSE]

\* pytest_configure with the plugin built and registered before the
\* configuration is validated.
configure_effect_register_first(c) ==
    IF c.api_key = ""
    THEN [registered |-> FALSE, raised |-> FALSE, note |-> "skipped"]
    ELSE [registered |-> TRUE, raised |-> ~validate_config(c),
          note |-> IF validate_config(c) THEN "registered" ELSE "rejected"]

\* pytest_configure without the test of the API key: every configuration is
\* built and validated.
configure_effect_validate_all(c) ==
    IF ~validate_config(c)
    THEN [registered |-> FALSE, raised |-> TRUE, note |-> "rejected"]
    ELSE [registered |-> TRUE, raised |-> FALSE, note |-> "registered"]

\* The body of pytest_configure: return when no API key is given; else
\* validate the configuration, and only then build the plugin (and with it
\* the API client) and register it.  A validation error is re-raised.
\* note is "skipped" when the body returned before building a
\* configuration, "rejected" when validation raised, else "registered".
configure_effect(c) ==
    IF c.api_key = ""
    THEN [registered |-> FALSE, raised |-> FALSE, note |-> "skipped"]
    ELSE IF ~validate_config(c)
    THEN [registered |-> FALSE, raised |-> TRUE, note |-> "rejected"]
    ELSE [registered |-> TRUE, raised |-> FALSE, note |-> "registered"]

-----------------------------------------------------------------------------
(* The state machine *)

Init ==
    /\ config \in Configs
    /\ pc = "load"
    /\ test_run_id = None
    /\ results = <<>>
    /\ total_tests = 0
    /\ passed_tests = 0
    /\ failed_tests = 0
    /\ skipped_tests = 0
    /\ error_tests = 0
    /\ requests = <<>>
    /\ closed = 0
    /\ raised = {}
    /\ errorLines = <<>>
    /\ handled = <<>>
    /\ last = [hook |-> "none", note |-> "none", when |-> "none", outcome |-> "none"]
    /\ response = NoCall
    /\ transport = TransportIdle(0)

\* pytest_configure: register the plugin when an API key is given and the
\* configuration is valid.
pytest_configure ==
    /\ pc = "load"
    /\ LET e == configure_effect(config)
       IN  /\ last' = [hook |-> "configure", note |-> e.note, when |-> "none",
                        outcome |-> "none"]
           /\ pc' = IF e.registered THEN "registered" ELSE "unregistered"
           /\ raised' = IF e.raised THEN raised \cup {"configure"} ELSE raised
    /\ UNCHANGED <<config, test_run_id, results, counters, requests, closed,
                   errorLines, handled, response, transport>>

\* pytest_sessionstart: create a run, or take the configured one.
pytest_sessionstart ==
    /\ pc = "registered"
    /\ pc' = "started"
    /\ last' = [hook |-> "sessionstart", note |-> "none", when |-> "none", outcome |-> "none"]
    /\ IF must_create(config)
       THEN \E answer \in CreateAnswers :
              LET h == IF answer = "fail"
                       THEN handle_error(config.silent, "Failed to create test run", 0)
                       ELSE NoError
              IN  /\ requests' = Append(requests, create_test_run(answer))
                  /\ test_run_id' = IF answer = "fail" THEN test_run_id
                                     ELSE created_run_id(answer)
                  /\ response' = IF answer = "fail" THEN Raised ELSE answer
                  /\ errorLines' = errorLines \o h.lines
                  /\ handled' = handled \o h.handled
                  /\ raised' = IF h.raised THEN raised \cup {"sessionstart"} ELSE raised
       ELSE /\ test_run_id' = config.test_run_id
            /\ UNCHANGED <<requests, errorLines, handled, raised, response>>
    /\ UNCHANGED <<config, results, counters, closed, transport>>

\* pytest_runtest_makereport: one report of one test.
pytest_runtest_makereport ==
    /\ pc = "started"
    /\ \E when \in Phases, outcome \in Outcomes, build_ok \in BOOLEAN :
         LET e == makereport_effect(when, outcome, build_ok)
         IN  /\ Len(e.results) <= MaxTests
             /\ results' = e.results
             /\ total_tests' = e.total
             /\ passed_tests' = e.passed
             /\ failed_tests' = e.failed
             /\ skipped_tests' = e.skipped
             /\ error_tests' = e.errors
             /\ raised' = IF e.raised THEN raised \cup {"makereport"} ELSE raised
             /\ last' = [hook |-> "makereport", note |-> e.note,
                          when |-> when, outcome |-> outcome]
    /\ UNCHANGED <<config, pc, test_run_id, requests, closed, errorLines, handled,
                   response, transport>>

\* pytest_sessionfinish: submit the accumulated results and complete the run.
pytest_sessionfinish ==
    /\ pc = "started"
    /\ pc' = "finished"
    /\ last' = [hook |-> "sessionfinish", note |-> "none", when |-> "none", outcome |-> "none"]
    /\ \E outs \in [1..Len(submit_batches(results, config.batch_size)) -> BOOLEAN],
          cout \in BOOLEAN :
         LET e == finish_effect(outs, cout)
         IN  /\ requests' = requests \o e.sent
             /\ errorLines' = errorLines \o e.lines
             /\ handled' = handled \o e.handled
             /\ raised' = IF e.raised THEN raised \cup {"sessionfinish"} ELSE raised
             /\ closed' = closed + e.closes
    /\ UNCHANGED <<config, test_run_id, results, counters, response, transport>>

Next ==
    \/ pytest_configure
    \/ pytest_sessionstart
    \/ pytest_runtest_makereport
    \/ pytest_sessionfinish

Spec == Init /\ [][Next]_vars

\* pytest_sessionfinish called on the plugin object a second time: the hook
\* keeps no record of having run, so the call goes through the same body.
pytest_sessionfinish_again ==
    /\ pc = "finished"
    /\ Len(results) <= MaxResent
    /\ pc' = "finished_again"
    /\ last' = [hook |-> "sessionfinish", note |-> "none", when |-> "none", outcome |-> "none"]
    /\ \E outs \in [1..Len(submit_batches(results, config.batch_size)) -> BOOLEAN],
          cout \in BOOLEAN :
         LET e == finish_effect(outs, cout)
         IN  /\ requests' = requests \o e.sent
             /\ errorLines' = errorLines \o e.lines
             /\ handled' = handled \o e.handled
             /\ raised' = IF e.raised THEN raised \cup {"sessionfinish"} ELSE raised
             /\ closed' = closed + e.closes
    /\ UNCHANGED <<config, test_run_id, results, counters, response, transport>>

NextAgain ==
    \/ Next
    \/ pytest_sessionfinish_again

\* The session with session finish called up to twice.
SpecAgain == Init /\ [][NextAgain]_vars

\* The transport on its own: the plugin is registered and at rest, and the
\* API client makes one logical request.
InitTransport ==
    /\ config \in {c \in Configs : validate_config(c)}
    /\ pc = "registered"
    /\ test_run_id = None
    /\ results = <<>>
    /\ total_tests = 0
    /\ passed_tests = 0
    /\ failed_tests = 0
    /\ skipped_tests = 0
    /\ error_tests = 0
    /\ requests = <<>>
    /\ closed = 0
    /\ raised = {}
    /\ errorLines = <<>>
    /\ handled = <<>>
    /\ last = [hook |-> "configure", note |-> "registered", when |-> "none",
               outcome |-> "none"]
    /\ response = NoCall
    /\ \E n \in 0..MaxRetries : transport = TransportIdle(n)

\* One call of _make_request.
request ==
    /\ transport.pc = "idle"
    /\ \E prepared \in BOOLEAN,
          wire \in [1..(transport.max_retries + 1) -> WireEvents] :
         transport' = make_request(transport, prepared, wire)
    /\ UNCHANGED pluginVars

NextTransport == request

SpecTransport == InitTransport /\ [][NextTransport]_vars

-----------------------------------------------------------------------------
(* Properties *)

Ceil(n, b) == (n + b - 1) \div b

RECURSIVE Flatten(_)
Flatten(ss) == IF Len(ss) = 0 THEN <<>> ELSE Head(ss) \o Flatten(Tail(ss))

\* The requests of one kind in the log, as the set of their positions.
Sent(kind) == {i \in 1..Len(requests) : requests[i].kind = kind}

\* Every request made so far succeeded / failed.
AllOk == \A i \in 1..Len(requests) : requests[i].ok
AllFailed == \A i \in 1..Len(requests) : ~requests[i].ok

\* The number of create-run requests ahead of the session finish's requests.
Creates == Cardinality(Sent("create"))

\* The hooks of the plugin object.
SessionHooks == {"sessionstart", "makereport", "sessionfinish"}

\* The error line _handle_error prints for the failure of request i.
LineFor(i) ==
    IF requests[i].kind = "create"
    THEN [msg |-> "Failed to create test run", batch |-> 0]
    ELSE IF requests[i].kind = "submit"
    THEN [msg |-> "Failed to submit batch", batch |-> i - Creates]
    ELSE [msg |-> "Failed to submit results", batch |-> 0]

\* C1: in every reachable state the total counter is the sum of the passed,
\* failed, skipped and error counters.
C1_CountersAddUp ==
    total_tests = passed_tests + failed_tests + skipped_tests + error_tests

C1_Witness ==
    total_tests = 3 /\ passed_tests = 1 /\ failed_tests = 1 /\ error_tests = 1

\* C2: when session finish has run with a run id held, n >= 1 results, batch
\* size b and every request succeeding, the log holds (after the create-run
\* request, if any) exactly ceil(n/b) submit requests, the k-th carrying
\* results (k-1)*b+1 .. min(k*b, n) in order, then exactly one complete
\* request whose summary holds the five counters.
C2_BatchesThenComplete ==
    (pc = "finished" /\ ~Falsy(test_run_id) /\ Len(results) >= 1 /\ AllOk) =>
        LET n == Len(results)
            b == config.batch_size
            k == Ceil(n, b)
        IN  /\ Len(requests) = Creates + k + 1
            /\ \A j \in 1..k :
                 requests[Creates + j] =
                     [kind |-> "submit", run_id |-> test_run_id,
                      batch |-> SubSeq(results, (j - 1) * b + 1, Min(j * b, n)),
                      summary |-> NoSummary, ok |-> TRUE]
            /\ requests[Creates + k + 1] =
                     [kind |-> "complete", run_id |-> test_run_id, batch |-> <<>>,
                      summary |-> [total |-> total_tests, passed |-> passed_tests,
                                   failed |-> failed_tests, skipped |-> skipped_tests,
                                   errors |-> error_tests],
                      ok |-> TRUE]

\* The scenario: batch size 2, outcomes passed, failed, skipped.
C2_Witness ==
    /\ pc = "finished"
    /\ config.create_test_run /\ config.batch_size = 2
    /\ results = <<[test |-> 1, status |-> "passed"],
                   [test |-> 2, status |-> "failed"],
                   [test |-> 3, status |-> "skipped"]>>
    /\ Len(requests) = 4 /\ AllOk
    /\ requests[2].batch = <<results[1], results[2]>>
    /\ requests[3].batch = <<results[3]>>
    /\ requests[4].summary =
           [total |-> 3, passed |-> 1, failed |-> 1, skipped |-> 1, errors |-> 0]

\* C3: for the accumulated results (n >= 0 of them) and the configured batch
\* size b >= 1, the batches _submit_results walks through are ceil(n/b) in
\* number, each of size at most b, and their concatenation in order is the
\* results sequence.
C3_PartitionLossless ==
    (pc \in {"registered", "started", "finished"}) =>
        LET b == config.batch_size
            parts == submit_batches(results, b)
        IN  /\ Len(parts) = Ceil(Len(results), b)
            /\ \A i \in 1..Len(parts) : Len(parts[i]) <= b
            /\ Flatten(parts) = results

C3_Witness ==
    /\ pc = "started" /\ config.batch_size = 2 /\ Len(results) = 3
    /\ Len(submit_batches(results, config.batch_size)) = 2

\* C4: in silent mode, as long as every request made has failed, none of
\* session start, test-finished and session finish has raised, and each
\* failed request has its error line.
C4_SilentNeverRaises ==
    (config.silent /\ AllFailed) =>
        /\ raised \cap SessionHooks = {}
        /\ \A i \in 1..Len(requests) :
             \E j \in 1..Len(errorLines) : errorLines[j] = LineFor(i)

C4_Witness ==
    /\ pc = "finished" /\ config.silent /\ AllFailed
    /\ Cardinality(Sent("submit")) = 2 /\ Cardinality(Sent("complete")) = 1
    /\ Len(errorLines) = 3

\* C5: in non-silent mode, once the create-run request has failed, session
\* start has raised and the log never holds a submit or a complete request.
C5_FailedCreateStopsDelivery ==
    (~config.silent /\ \E i \in Sent("create") : ~requests[i].ok) =>
        /\ "sessionstart" \in raised
        /\ Sent("submit") = {} /\ Sent("complete") = {}

C5_Witness ==
    /\ ~config.silent /\ pc = "finished" /\ Len(results) >= 2
    /\ \E i \in Sent("create") : ~requests[i].ok

\* C6: with an existing run id configured, whatever create_test_run is,
\* session start holds the configured id from then on and no create-run
\* request is ever made.
C6_ExistingRunNoCreate ==
    ~Falsy(config.test_run_id) =>
        /\ (pc \in {"started", "finished"} => test_run_id = config.test_run_id)
        /\ Sent("create") = {}

C6_Witness ==
    /\ config.test_run_id = RunCfg /\ config.create_test_run
    /\ pc = "finished" /\ test_run_id = RunCfg /\ Len(requests) >= 2

\* C7: once session finish has returned or raised, close() has been called
\* exactly once, on every exit path.
C7_ClosedOnEveryExit ==
    pc = "finished" => closed = 1

\* C8 as stated: session finish with zero results makes no submit request
\* and does not raise, whether or not a run id is held, whatever silent is.
C8_EmptyFinishNeverFails ==
    (pc = "finished" /\ Len(results) = 0) =>
        /\ Sent("submit") = {}
        /\ "sessionfinish" \notin raised

\* C8 amended: session finish with zero results makes no submit request; it
\* raises exactly when a run id is held, silent is false and the
\* complete-run request fails.
C8_EmptyFinishNoSubmit ==
    (pc = "finished" /\ Len(results) = 0) =>
        /\ Sent("submit") = {}
        /\ ("sessionfinish" \in raised) <=>
               (/\ ~config.silent
                /\ ~Falsy(test_run_id)
                /\ \E i \in Sent("complete") : ~requests[i].ok)

C8_Witness ==
    /\ pc = "finished" /\ Len(results) = 0 /\ ~Falsy(test_run_id)
    /\ ~config.silent /\ Sent("complete") # {} /\ AllOk
    /\ "sessionfinish" \notin raised

\* C9: when session finish has run with no run id held, the log holds no
\* submit and no complete request and session finish has not raised,
\* whatever silent is and however many results were accumulated.
C9_NoRunIdSkipsDelivery ==
    (pc = "finished" /\ Falsy(test_run_id)) =>
        /\ Sent("submit") = {} /\ Sent("complete") = {}
        /\ "sessionfinish" \notin raised

C9_Witness ==
    /\ pc = "finished" /\ Falsy(test_run_id) /\ config.silent
    /\ Len(results) >= 2
    /\ \E i \in Sent("create") : ~requests[i].ok

\* C10: a test-finished event makes no request and does not raise; when
\* building the result fails it leaves the results and the five counters
\* as they were.
C10_MakereportLocal ==
    [][last'.hook = "makereport" =>
          /\ requests' = requests
          /\ raised' = raised
          /\ (last'.note = "build_failed" =>
                 results' = results /\ counters' = counters)]_vars

C10_Witness ==
    /\ last.hook = "makereport" /\ last.note = "build_failed"
    /\ Len(results) >= 1 /\ ~Falsy(test_run_id)

\* A report of a test that errored: a failure outside the call phase, or an
\* outcome that is none of passed, failed and skipped.
ErrorReport(l) ==
    /\ l.hook = "makereport" /\ l.note # "build_failed"
    /\ \/ (l.when # "call" /\ l.outcome = "failed")
       \/ l.outcome = "unknown"

\* C11: a test whose outcome is error, a setup failure included, appends one
\* result with status error and adds one to the error counter and to the
\* total.
C11_ErrorOutcomeRecorded ==
    [][ErrorReport(last') =>
          /\ results' = Append(results, [test |-> Len(results) + 1, status |-> "error"])
          /\ error_tests' = error_tests + 1
          /\ total_tests' = total_tests + 1]_vars

\* C12: when validation fails, pytest_configure raises, the plugin is never
\* built or registered, and so no hook of it has run and no request was made.
C12_InvalidConfigNeverActive ==
    /\ (pc # "load" /\ config.api_key # "" /\ ~validate_config(config)) =>
           "configure" \in raised
    /\ "configure" \in raised =>
           /\ pc = "unregistered"
           /\ last.hook = "configure"
           /\ requests = <<>> /\ results = <<>> /\ closed = 0
           /\ ~ENABLED pytest_sessionstart
           /\ ~ENABLED pytest_runtest_makereport
           /\ ~ENABLED pytest_sessionfinish

C12_Witness ==
    /\ "configure" \in raised /\ config.batch_size = 0 /\ pc = "unregistered"

\* The last attempt of the request made.
LastAttempt == transport.wire[Len(transport.wire)]

\* C13: a failed request ends in an APIError whose code is 408 for a
\* timeout, 503 for a connection failure, 500 for any other request-layer
\* failure, and the remote's own status for a non-2xx response.
C13_ErrorCodes ==
    (transport.pc # "idle") =>
        IF Len(transport.wire) = 0
        THEN transport.pc = "raised" /\ transport.error = 500
        ELSE IF LastAttempt.kind = "response"
        THEN IF LastAttempt.status < 400
             THEN transport.pc = "returned"
             ELSE transport.pc = "raised" /\ transport.error = LastAttempt.status
        ELSE /\ transport.pc = "raised"
             /\ transport.error =
                    IF LastAttempt.kind \in {"read_timeout", "connect_timeout"}
                    THEN 408 ELSE 503

Submits == SelectSeq(requests, LAMBDA r : r.kind = "submit")

\* The batches session finish has to deliver.
Partitions == submit_batches(results, config.batch_size)

\* The requests that failed, as the set of their positions.
Failed == {i \in 1..Len(requests) : ~requests[i].ok}

\* The place of a kind of request in a session.
Rank(kind) == IF kind = "create" THEN 1 ELSE IF kind = "submit" THEN 2 ELSE 3

\* C14: in silent mode with a run id held and n >= 1 results, whichever
\* submit requests fail, session finish attempts every partition exactly
\* once and in order, and then issues exactly one complete request whose
\* summary counts every accumulated result.
C14_SilentAttemptsEveryPartition ==
    (pc = "finished" /\ config.silent /\ ~Falsy(test_run_id) /\ Len(results) >= 1) =>
        /\ Len(Submits) = Ceil(Len(results), config.batch_size)
        /\ \A k \in 1..Len(Submits) : Submits[k].batch = Partitions[k]
        /\ Cardinality(Sent("complete")) = 1
        /\ requests[Len(requests)].kind = "complete"
        /\ requests[Len(requests)].summary.total = Len(results)

C14_Witness ==
    /\ pc = "finished" /\ config.silent /\ Len(results) = 3
    /\ Len(Submits) = 3 /\ ~Submits[1].ok /\ Submits[2].ok /\ ~Submits[3].ok
    /\ Sent("complete") # {}

\* C15: the requests of a session are made one after the other in the
\* order create, submit, complete: the k-th submit request carries partition
\* k, and a complete request is made only after every partition was
\* attempted.
C15_RequestsInOrder ==
    /\ \A i, j \in 1..Len(requests) :
         i < j => Rank(requests[i].kind) <= Rank(requests[j].kind)
    /\ Len(Submits) <= Len(Partitions)
    /\ \A k \in 1..Len(Submits) : Submits[k].batch = Partitions[k]
    /\ Cardinality(Sent("complete")) <= 1
    /\ Sent("complete") # {} =>
           /\ Len(Submits) = Len(Partitions)
           /\ requests[Len(requests)].kind = "complete"

C15_Witness ==
    /\ pc = "finished" /\ ~config.silent
    /\ Len(requests) = 5 /\ Sent("create") = {1} /\ Len(Submits) = 3
    /\ requests[5].kind = "complete" /\ ~requests[5].ok

\* C16: in non-silent mode a request of session finish that fails is the
\* last one it makes (no later partition, no complete request after a failed
\* submit), session finish raises, and close() was still called once.
C16_NonSilentFailureAborts ==
    (pc = "finished" /\ ~config.silent /\ ~Falsy(test_run_id)) =>
        /\ \A i \in Failed : i = Len(requests)
        /\ (Failed # {}) <=> ("sessionfinish" \in raised)
        /\ closed = 1

C16_Witness ==
    /\ pc = "finished" /\ ~config.silent /\ Len(Partitions) = 3
    /\ Len(Submits) = 1 /\ ~Submits[1].ok /\ Sent("complete") = {}
    /\ "sessionfinish" \in raised /\ closed = 1

\* C17: every failed request of session start and session finish is handed
\* to _handle_error exactly once, in both modes; in silent mode each call
\* prints its line, in non-silent mode each call raises out of its hook.
C17_EachErrorHandledOnce ==
    /\ Len(handled) = Cardinality(Failed)
    /\ \A i \in Failed : \E j \in 1..Len(handled) : handled[j] = LineFor(i)
    /\ config.silent => errorLines = handled
    /\ ~config.silent =>
           /\ errorLines = <<>>
           /\ Len(handled) = Cardinality(raised \cap {"sessionstart", "sessionfinish"})

C17_Witness ==
    /\ pc = "finished" /\ ~config.silent /\ Len(Partitions) = 2
    /\ Len(Submits) = 2 /\ Submits[1].ok /\ ~Submits[2].ok
    /\ Len(handled) = 1

\* C19: the results are as many as total_tests and numbered in the order
\* they were appended; a step changes them only by appending one result,
\* and only on a call-phase report; a setup or teardown report changes
\* neither the results nor a counter.
C19_OneResultPerCallReport ==
    /\ [](/\ Len(results) = total_tests
          /\ \A i \in 1..Len(results) : results[i].test = i)
    /\ [][/\ results' # results =>
               /\ Len(results') = Len(results) + 1
               /\ SubSeq(results', 1, Len(results)) = results
               /\ last'.hook = "makereport" /\ last'.when = "call"
          /\ (last'.hook = "makereport" /\ last'.when # "call") =>
               (results' = results /\ counters' = counters)]_vars

C19_Witness ==
    /\ last.hook = "makereport" /\ last.when = "setup" /\ last.outcome = "failed"
    /\ Len(results) = 2 /\ total_tests = 2

\* C20: at most one create request is made, and only by session start; only
\* session start writes the held run id; every submit and complete request
\* carries the held run id.
C20_OneRunPerSession ==
    /\ [](/\ Cardinality(Sent("create")) <= 1
          /\ \A i \in Sent("submit") \cup Sent("complete") :
               requests[i].run_id = test_run_id)
    /\ [][(test_run_id' # test_run_id \/ Sent("create")' # Sent("create")) =>
               last'.hook = "sessionstart"]_vars

C20_Witness ==
    /\ pc = "finished" /\ test_run_id = RunSrv /\ Sent("create") = {1}
    /\ Len(Submits) = 2 /\ Cardinality(Sent("complete")) = 1

\* C21: when the create-run request succeeded with a body that has no id,
\* or an empty one, session start has not raised and the run id is unset;
\* session finish then makes no submit and no complete request and does not
\* raise, in silent and in non-silent mode alike.
C21_CreateWithoutIdStaysQuiet ==
    (response \in {"noid", "emptyid"}) =>
        /\ Falsy(test_run_id)
        /\ requests = <<create_test_run(response)>> /\ AllOk
        /\ raised \cap {"sessionstart", "sessionfinish"} = {}
        /\ handled = <<>> /\ errorLines = <<>>

C21_Witness ==
    /\ response = "noid" /\ pc = "finished" /\ ~config.silent
    /\ Len(results) >= 2 /\ test_run_id = None

\* The requests a step adds to the log.
NewRequests == SubSeq(requests', Len(requests) + 1, Len(requests'))

\* A request with its outcome left out.
Asked(r) == [r EXCEPT !.ok = TRUE]

\* C22: a call of session finish leaves the results, the five counters and
\* the held run id as they were; a second call with a run id held and
\* n >= 1 results, when its requests succeed, makes ceil(n/b) submit
\* requests carrying the same partitions and one more complete request with
\* the same summary, the requests a first call that went through made.
C22_FinishKeepsResultsAndResends ==
    /\ [][last'.hook = "sessionfinish" =>
              /\ results' = results
              /\ counters' = counters
              /\ test_run_id' = test_run_id]_vars
    /\ [][(/\ pc = "finished" /\ pc' = "finished_again"
            /\ ~Falsy(test_run_id) /\ Len(results) >= 1
            /\ \A i \in 1..Len(NewRequests) : NewRequests[i].ok) =>
              LET k == Ceil(Len(results), config.batch_size)
              IN  /\ Len(NewRequests) = k + 1
                  /\ \A j \in 1..k :
                       NewRequests[j] = submit_test_results(test_run_id, Partitions[j], TRUE)
                  /\ NewRequests[k + 1] =
                         complete_test_run(test_run_id, TestRunSummary, TRUE)
                  /\ (Len(requests) = Creates + k + 1 =>
                         \A j \in 1..(k + 1) :
                            Asked(requests[Creates + j]) = NewRequests[j])]_vars

C22_Witness ==
    /\ pc = "finished_again" /\ test_run_id = RunSrv /\ config.batch_size = 1
    /\ Len(results) = 2 /\ Len(requests) = 7 /\ AllOk
    /\ Cardinality(Sent("submit")) = 4 /\ Cardinality(Sent("complete")) = 2
    /\ requests[5] = requests[2] /\ requests[6] = requests[3]
    /\ requests[7] = requests[4]

\* C23: when no API key is given, pytest_configure returns without building
\* or validating a configuration, without raising and without registering
\* the plugin, however invalid the rest of the options are; no hook of the
\* plugin can run and no request is ever made.
C23_NoKeyNoPlugin ==
    (pc # "load" /\ config.api_key = "") =>
        /\ pc = "unregistered"
        /\ last = [hook |-> "configure", note |-> "skipped", when |-> "none",
                   outcome |-> "none"]
        /\ raised = {}
        /\ requests = <<>> /\ response = NoCall /\ closed = 0
        /\ ~ENABLED pytest_sessionstart
        /\ ~ENABLED pytest_runtest_makereport
        /\ ~ENABLED pytest_sessionfinish

C23_Witness ==
    /\ pc = "unregistered" /\ config.api_key = "" /\ config.batch_size = 0
    /\ ~config.create_test_run /\ config.test_run_id = None
    /\ ~validate_config(config) /\ "configure" \notin raised
    /\ last.note = "skipped"

====
